---- MODULE Spec2Model ----
(***************************************************************************)
(* Model of the Transactor ledger engine (src/src/ledger.rs and            *)
(* src/src/ledger/balance.rs).                                             *)
(*                                                                         *)
(* Amounts are f64 in the source; the model uses integers (minor units),   *)
(* including a negative one, because neither the ledger nor the balance    *)
(* rejects a negative amount.  HashMaps are functions with a growing       *)
(* domain, the Vec of entries is a sequence, and the index stored in       *)
(* client_tx_to_idx is the 0-based index of the source.                    *)
(***************************************************************************)
EXTENDS Integers, Sequences, FiniteSets, TLC

\* ---------------------------------------------------------------- bounds
\* The longest history (Vec<Entry>) the model lets the ledger grow to.
MaxHistory == 2

\* The (client, tx) pairs the submitted transactions name: two transactions
\* of client 0, and one of client 1 that reuses the tx id 1.
Keys == {<<0, 1>>, <<0, 2>>, <<1, 1>>}

Clients == {k[1] : k \in Keys}
Txs == {k[2] : k \in Keys}

\* Sample amounts (f64 in the source, validated nowhere, so a negative
\* amount reaches the ledger).
Amounts == {0 - 1, 1, 2}

\* ---------------------------------------------------------- transactions
MoneyKinds == {"Deposit", "Withdrawal"}
RefKinds == {"Dispute", "Resolve", "ChargeBack"}

Transaction ==
    {[kind |-> k, client |-> ck[1], tx |-> ck[2], amount |-> a] :
        k \in MoneyKinds, ck \in Keys, a \in Amounts}
    \cup {[kind |-> k, client |-> ck[1], tx |-> ck[2]] :
        k \in RefKinds, ck \in Keys}

is_deposit(t) == t.kind = "Deposit"

\* key that drops the client: entries are found by tx id alone.
key_txOnly(t) == <<0, t.tx>>

key(t) == <<t.client, t.tx>>

\* ---------------------------------------------------------------- Entry
TxStatus == {"Active", "Disputed", "Resolved", "ChargedBack"}

Entry_new(t) == [t |-> t, status |-> "Active"]

\* Each transition returns the entry after the call and the call's result.

\* dispute that also accepts an entry whose dispute was resolved.
dispute_again(e) ==
    IF e.status \notin {"Active", "Resolved"}
    THEN [e |-> e, err |-> "UnexpectedTxStatus"]
    ELSE [e |-> [e EXCEPT !.status = "Disputed"], err |-> "Ok"]

dispute(e) ==
    IF e.status # "Active"
    THEN [e |-> e, err |-> "UnexpectedTxStatus"]
    ELSE [e |-> [e EXCEPT !.status = "Disputed"], err |-> "Ok"]


\* resolve that only refuses an entry in a terminal status.
resolve_anyStatus(e) ==
    IF e.status \in {"Resolved", "ChargedBack"}
    THEN [e |-> e, err |-> "UnexpectedTxStatus"]
    ELSE [e |-> [e EXCEPT !.status = "Resolved"], err |-> "Ok"]

resolve(e) ==
    IF e.status # "Disputed"
    THEN [e |-> e, err |-> "UnexpectedTxStatus"]
    ELSE [e |-> [e EXCEPT !.status = "Resolved"], err |-> "Ok"]

\* charge_back that only refuses an entry in a terminal status.
charge_back_anyStatus(e) ==
    IF e.status \in {"Resolved", "ChargedBack"}
    THEN [e |-> e, err |-> "UnexpectedTxStatus"]
    ELSE [e |-> [e EXCEPT !.status = "ChargedBack"], err |-> "Ok"]

charge_back(e) ==
    IF e.status # "Disputed"
    THEN [e |-> e, err |-> "UnexpectedTxStatus"]
    ELSE [e |-> [e EXCEPT !.status = "ChargedBack"], err |-> "Ok"]

\* -------------------------------------------------------------- Balance
EmptyMap == [x \in {} |-> 0]

\* HashMap::insert: the new value replaces one already stored under the key.
MapInsert(m, k, v) == (k :> v) @@ m

MapRemove(m, k) == [x \in (DOMAIN m) \ {k} |-> m[x]]

Balance_new(client) ==
    [client |-> client, total |-> 0, holds |-> EmptyMap, locked |-> FALSE]

RECURSIVE SumPositive(_, _)
SumPositive(h, keys) ==
    IF keys = {} THEN 0
    ELSE LET k == CHOOSE x \in keys : TRUE
         IN (IF h[k] > 0 THEN h[k] ELSE 0) + SumPositive(h, keys \ {k})


RECURSIVE SumAll(_, _)
SumAll(h, keys) ==
    IF keys = {} THEN 0
    ELSE LET k == CHOOSE x \in keys : TRUE
         IN h[k] + SumAll(h, keys \ {k})

\* held without the `*v > 0` filter.
held_all(b) == SumAll(b.holds, DOMAIN b.holds)

held(b) == SumPositive(b.holds, DOMAIN b.holds)

\* available that forgets the holds.
available_ignoresHolds(b) == b.total

available(b) == b.total - held(b)

locked(b) == b.locked

\* lock_balance that leaves the flag as it is.
lock_balance_noop(b) == b

lock_balance(b) == [b EXCEPT !.locked = TRUE]

deposit(b, amount) ==
    IF b.locked
    THEN [b |-> b, err |-> "AccountLocked"]
    ELSE [b |-> [b EXCEPT !.total = @ + amount], err |-> "Ok"]


\* withdraw that checks but never subtracts.
withdraw_noSubtract(b, amount) ==
    IF b.total < amount
    THEN [b |-> b, err |-> "InsufficientFunds"]
    ELSE IF b.locked
    THEN [b |-> b, err |-> "AccountLocked"]
    ELSE [b |-> b, err |-> "Ok"]

\* withdraw that checks the amount against available instead of total.
withdraw_checksAvailable(b, amount) ==
    IF available(b) < amount
    THEN [b |-> b, err |-> "InsufficientFunds"]
    ELSE IF b.locked
    THEN [b |-> b, err |-> "AccountLocked"]
    ELSE [b |-> [b EXCEPT !.total = @ - amount], err |-> "Ok"]

\* withdraw without the check of the locked flag.
withdraw_noLockCheck(b, amount) ==
    IF b.total < amount
    THEN [b |-> b, err |-> "InsufficientFunds"]
    ELSE [b |-> [b EXCEPT !.total = @ - amount], err |-> "Ok"]

withdraw(b, amount) ==
    IF b.total < amount
    THEN [b |-> b, err |-> "InsufficientFunds"]
    ELSE IF b.locked
    THEN [b |-> b, err |-> "AccountLocked"]
    ELSE [b |-> [b EXCEPT !.total = @ - amount], err |-> "Ok"]

\* hold that reports success without recording the held amount.
hold_forget(b, tx, amount) ==
    IF tx \in DOMAIN b.holds
    THEN [b |-> b, err |-> "MultiHoldError"]
    ELSE [b |-> b, err |-> "Ok"]

hold(b, tx, amount) ==
    IF tx \in DOMAIN b.holds
    THEN [b |-> b, err |-> "MultiHoldError"]
    ELSE [b |-> [b EXCEPT !.holds = MapInsert(@, tx, amount)], err |-> "Ok"]


\* remove_hold that reports success and leaves the hold in place.
remove_hold_keep(b, tx) ==
    IF tx \notin DOMAIN b.holds
    THEN [b |-> b, err |-> "NoHoldError"]
    ELSE [b |-> b, err |-> "Ok"]

\* remove_hold that clears every hold of the balance.
remove_hold_all(b, tx) ==
    IF tx \notin DOMAIN b.holds
    THEN [b |-> b, err |-> "NoHoldError"]
    ELSE [b |-> [b EXCEPT !.holds = EmptyMap], err |-> "Ok"]

remove_hold(b, tx) ==
    IF tx \notin DOMAIN b.holds
    THEN [b |-> b, err |-> "NoHoldError"]
    ELSE [b |-> [b EXCEPT !.holds = MapRemove(@, tx)], err |-> "Ok"]


\* apply_hold with the sign of the adjustment flipped.
apply_hold_add(b, tx) ==
    IF tx \notin DOMAIN b.holds
    THEN [b |-> b, err |-> "NoHoldError"]
    ELSE [b |-> [b EXCEPT !.total = @ + b.holds[tx],
                          !.holds = MapRemove(@, tx)],
          err |-> "Ok"]

apply_hold(b, tx) ==
    IF tx \notin DOMAIN b.holds
    THEN [b |-> b, err |-> "NoHoldError"]
    ELSE [b |-> [b EXCEPT !.total = @ - b.holds[tx],
                          !.holds = MapRemove(@, tx)],
          err |-> "Ok"]

\* --------------------------------------------------------------- Ledger
Ledger_new ==
    [client_tx_to_idx |-> EmptyMap, balance |-> EmptyMap, transactions |-> <<>>]

\* A return from process_transaction: the ledger as the call left it (the
\* source mutates in place, so an early return keeps what was done before
\* it) and the result.
Ret(L, err) == [ledger |-> L, result |-> err]

SetBalance(L, c, b) == [L EXCEPT !.balance[c] = b]

SetEntry(L, idx, e) == [L EXCEPT !.transactions[idx + 1] = e]

\* Registration of an accepted deposit or withdrawal (ledger.rs 271-284).
\* Registration that appends the entry and forgets the index.
Register_noIndex(L, t) ==
    [L EXCEPT !.transactions = Append(@, Entry_new(t))]

\* Registration that puts the new entry at the front of the history.
Register_prepend(L, t) ==
    [L EXCEPT !.client_tx_to_idx = MapInsert(@, key(t), 0),
              !.transactions = <<Entry_new(t)>> \o @]

Register(L, t) ==
    LET index == Len(L.transactions)
    IN [L EXCEPT !.client_tx_to_idx = MapInsert(@, key(t), index),
                 !.transactions = Append(@, Entry_new(t))]


\* The Dispute arm without the -1f64 factor for a withdrawal.
DisputeArm_noNegate(L, t) ==
    IF key(t) \in DOMAIN L.client_tx_to_idx
    THEN LET idx == L.client_tx_to_idx[key(t)]
             r == dispute(L.transactions[idx + 1])
             L1 == SetEntry(L, idx, r.e)
             b == L1.balance[t.client]
         IN IF r.err # "Ok" THEN Ret(L1, r.err)
            ELSE LET h == hold(b, t.tx, r.e.t.amount)
                 IN Ret(SetBalance(L1, t.client, h.b), h.err)
    ELSE Ret(L, "MissingTransaction")

DisputeArm(L, t) ==
    IF key(t) \in DOMAIN L.client_tx_to_idx
    THEN LET idx == L.client_tx_to_idx[key(t)]
             r == dispute(L.transactions[idx + 1])
             L1 == SetEntry(L, idx, r.e)
             b == L1.balance[t.client]
         IN IF r.err # "Ok" THEN Ret(L1, r.err)
            ELSE IF r.e.t.kind = "Deposit"
            THEN LET h == hold(b, t.tx, r.e.t.amount)
                 IN Ret(SetBalance(L1, t.client, h.b), h.err)
            ELSE IF r.e.t.kind = "Withdrawal"
            THEN LET h == hold(b, t.tx, (0 - 1) * r.e.t.amount)
                 IN Ret(SetBalance(L1, t.client, h.b), h.err)
            ELSE Ret(L1, "Ok")
    ELSE Ret(L, "MissingTransaction")

ResolveArm(L, t) ==
    IF key(t) \in DOMAIN L.client_tx_to_idx
    THEN LET idx == L.client_tx_to_idx[key(t)]
             r == resolve(L.transactions[idx + 1])
             L1 == SetEntry(L, idx, r.e)
             b == L1.balance[t.client]
         IN IF r.err # "Ok" THEN Ret(L1, r.err)
            ELSE LET h == remove_hold(b, t.tx)
                 IN Ret(SetBalance(L1, t.client, h.b), h.err)
    ELSE Ret(L, "MissingTransaction")

ChargeBackArm(L, t) ==
    IF key(t) \in DOMAIN L.client_tx_to_idx
    THEN LET idx == L.client_tx_to_idx[key(t)]
             r == charge_back(L.transactions[idx + 1])
             L1 == SetEntry(L, idx, r.e)
             b == L1.balance[t.client]
         IN IF r.err # "Ok" THEN Ret(L1, r.err)
            ELSE LET h == apply_hold(b, t.tx)
                 IN IF h.err # "Ok"
                    THEN Ret(SetBalance(L1, t.client, h.b), h.err)
                    ELSE Ret(SetBalance(L1, t.client, lock_balance(h.b)), "Ok")
    ELSE Ret(L, "MissingTransaction")

DepositArm(L, t) ==
    LET d == deposit(L.balance[t.client], t.amount)
    IN IF d.err # "Ok" THEN Ret(SetBalance(L, t.client, d.b), d.err)
       ELSE Ret(Register(SetBalance(L, t.client, d.b), t), "Ok")

\* The Withdrawal arm that registers the transaction whatever withdraw says.
WithdrawalArm_registerAlways(L, t) ==
    LET w == withdraw(L.balance[t.client], t.amount)
    IN Ret(Register(SetBalance(L, t.client, w.b), t), w.err)

WithdrawalArm(L, t) ==
    LET w == withdraw(L.balance[t.client], t.amount)
    IN IF w.err # "Ok" THEN Ret(SetBalance(L, t.client, w.b), w.err)
       ELSE Ret(Register(SetBalance(L, t.client, w.b), t), "Ok")

Dispatch(L, t) ==
    CASE t.kind = "Deposit" -> DepositArm(L, t)
      [] t.kind = "Withdrawal" -> WithdrawalArm(L, t)
      [] t.kind = "Dispute" -> DisputeArm(L, t)
      [] t.kind = "Resolve" -> ResolveArm(L, t)
      [] t.kind = "ChargeBack" -> ChargeBackArm(L, t)

\* The balance lookup/creation of ledger.rs 194-199.
EnsureBalance(L, t) ==
    IF t.client \notin DOMAIN L.balance
    THEN [L EXCEPT !.balance = MapInsert(@, t.client, Balance_new(t.client))]
    ELSE L


\* process_transaction without the lock check of ledger.rs 204-207.
process_transaction_noLockCheck(L, t) ==
    IF t.kind \in MoneyKinds /\ key(t) \in DOMAIN L.client_tx_to_idx
    THEN Ret(L, "DuplicateTransaction")
    ELSE IF ~is_deposit(t) /\ t.client \notin DOMAIN L.balance
    THEN Ret(L, "NoInitialDeposit")
    ELSE Dispatch(EnsureBalance(L, t), t)

\* process_transaction without the duplicate check of ledger.rs 185-192.
process_transaction_noDupCheck(L, t) ==
    IF ~is_deposit(t) /\ t.client \notin DOMAIN L.balance
    THEN Ret(L, "NoInitialDeposit")
    ELSE LET L1 == EnsureBalance(L, t)
         IN IF locked(L1.balance[t.client])
            THEN Ret(L1, "FrozenAccountError")
            ELSE Dispatch(L1, t)

\* process_transaction that creates the Balance before it checks for one.
process_transaction_createFirst(L, t) ==
    IF t.kind \in MoneyKinds /\ key(t) \in DOMAIN L.client_tx_to_idx
    THEN Ret(L, "DuplicateTransaction")
    ELSE LET L1 == EnsureBalance(L, t)
         IN IF ~is_deposit(t) /\ t.client \notin DOMAIN L.balance
            THEN Ret(L1, "NoInitialDeposit")
            ELSE IF locked(L1.balance[t.client])
            THEN Ret(L1, "FrozenAccountError")
            ELSE Dispatch(L1, t)

\* process_transaction with the lock check ahead of the duplicate check.
process_transaction_lockFirst(L, t) ==
    IF t.client \in DOMAIN L.balance /\ locked(L.balance[t.client])
    THEN Ret(L, "FrozenAccountError")
    ELSE IF t.kind \in MoneyKinds /\ key(t) \in DOMAIN L.client_tx_to_idx
    THEN Ret(L, "DuplicateTransaction")
    ELSE IF ~is_deposit(t) /\ t.client \notin DOMAIN L.balance
    THEN Ret(L, "NoInitialDeposit")
    ELSE Dispatch(EnsureBalance(L, t), t)

process_transaction(L, t) ==
    IF t.kind \in MoneyKinds /\ key(t) \in DOMAIN L.client_tx_to_idx
    THEN Ret(L, "DuplicateTransaction")
    ELSE IF ~is_deposit(t) /\ t.client \notin DOMAIN L.balance
    THEN Ret(L, "NoInitialDeposit")
    ELSE LET L1 == EnsureBalance(L, t)
         IN IF locked(L1.balance[t.client])
            THEN Ret(L1, "FrozenAccountError")
            ELSE Dispatch(L1, t)

get_available_balance(L, client) ==
    IF client \in DOMAIN L.balance
    THEN [some |-> TRUE, value |-> available(L.balance[client])]
    ELSE [some |-> FALSE]

\* ------------------------------------------------------------ the system
\* client_tx_to_idx, balance, transactions: the fields of Ledger.
\* result: the return value of the latest process_transaction call ("None"
\* before the first one).
VARIABLES client_tx_to_idx, balance, transactions, result

vars == <<client_tx_to_idx, balance, transactions, result>>

ledger ==
    [client_tx_to_idx |-> client_tx_to_idx, balance |-> balance,
     transactions |-> transactions]

Init ==
    /\ client_tx_to_idx = Ledger_new.client_tx_to_idx
    /\ balance = Ledger_new.balance
    /\ transactions = Ledger_new.transactions
    /\ result = "None"

\* One call of process_transaction, as main.rs makes it for each record.  The
\* history is capped: a call that would grow it past MaxHistory is not made.
Process(t) ==
    /\ LET r == process_transaction(ledger, t)
       IN /\ Len(r.ledger.transactions) <= MaxHistory
          /\ client_tx_to_idx' = r.ledger.client_tx_to_idx
          /\ balance' = r.ledger.balance
          /\ transactions' = r.ledger.transactions
          /\ result' = r.result

Next == \E t \in Transaction : Process(t)

Spec == Init /\ [][Next]_vars

\* A second specification: the inputs of the funded-withdrawal property.
\* Amounts are non-negative and a Withdrawal is submitted only when its amount
\* does not exceed the client's total (0 for a client without a Balance).
TotalOf(c) == IF c \in DOMAIN balance THEN balance[c].total ELSE 0

Funded(t) ==
    /\ t.kind \in MoneyKinds => t.amount >= 0
    /\ t.kind = "Withdrawal" => t.amount <= TotalOf(t.client)

NextFunded == \E t \in Transaction : Funded(t) /\ Process(t)

SpecFunded == Init /\ [][NextFunded]_vars

\* A third specification: one Balance used directly through its own
\* methods, as the unit tests of balance.rs use it. The ledger is not
\* involved: the history and the index stay empty, balance holds the one
\* Balance under client 0, and result is what the last method returned
\* ("None" for lock_balance, which returns nothing).
MaxTotal == 3

InitBalance ==
    /\ client_tx_to_idx = EmptyMap
    /\ transactions = <<>>
    /\ balance = (0 :> Balance_new(0))
    /\ result = "None"

BalanceCall(r) ==
    /\ r.b.total \in (0 - MaxTotal)..MaxTotal
    /\ balance' = (0 :> r.b)
    /\ result' = r.err
    /\ UNCHANGED <<client_tx_to_idx, transactions>>

BalanceDeposit == \E a \in Amounts : BalanceCall(deposit(balance[0], a))

BalanceWithdraw == \E a \in Amounts : BalanceCall(withdraw(balance[0], a))

BalanceHold ==
    \E x \in Txs : \E a \in Amounts : BalanceCall(hold(balance[0], x, a))

BalanceRemoveHold == \E x \in Txs : BalanceCall(remove_hold(balance[0], x))

BalanceApplyHold == \E x \in Txs : BalanceCall(apply_hold(balance[0], x))

BalanceLock ==
    /\ balance' = (0 :> lock_balance(balance[0]))
    /\ result' = "None"
    /\ UNCHANGED <<client_tx_to_idx, transactions>>

NextBalance ==
    \/ BalanceDeposit
    \/ BalanceWithdraw
    \/ BalanceHold
    \/ BalanceRemoveHold
    \/ BalanceApplyHold
    \/ BalanceLock

SpecBalance == InitBalance /\ [][NextBalance]_vars

\* A fourth specification: the record loop of main as it is written,
\* `let _ = ledger.process_transaction(tx);`. The value the call returns is
\* dropped, so result stays as Init left it and a state is the ledger alone.
ProcessDiscarding(t) ==
    /\ LET r == process_transaction(ledger, t)
       IN /\ Len(r.ledger.transactions) <= MaxHistory
          /\ client_tx_to_idx' = r.ledger.client_tx_to_idx
          /\ balance' = r.ledger.balance
          /\ transactions' = r.ledger.transactions
    /\ UNCHANGED result

NextDiscarding == \E t \in Transaction : ProcessDiscarding(t)

SpecDiscarding == Init /\ [][NextDiscarding]_vars

\* ------------------------------------------------- vocabulary of the claims
\* What a call of process_transaction(t) would return in the current state.
Outcome(t) == process_transaction(ledger, t)

HasBalance(c) == c \in DOMAIN balance

Registered(c, x) == <<c, x>> \in DOMAIN client_tx_to_idx

EntryAt(c, x) == transactions[client_tx_to_idx[<<c, x>>] + 1]

\* The positions of the history that hold entries of client c.
EntriesOf(c) == {i \in 1..Len(transactions) : transactions[i].t.client = c}

NonNegativeAmounts == \A i \in 1..Len(transactions) : transactions[i].t.amount >= 0

RECURSIVE SumOver(_, _)
SumOver(f, keys) ==
    IF keys = {} THEN 0
    ELSE LET k == CHOOSE x \in keys : TRUE
         IN f[k] + SumOver(f, keys \ {k})

\* C1 -- process_transaction is atomic on failure: in every reachable state
\* and for every transaction t, if the call returns an error then the
\* ledger it leaves (balances with total, holds and locked, every entry
\* with its status, the history and the (client, tx) index) is the ledger
\* it found.
C1_AtomicOnFailure ==
    \A t \in Transaction :
        LET r == Outcome(t)
        IN r.result # "Ok" =>
              /\ r.ledger.balance = balance
              /\ r.ledger.transactions = transactions
              /\ r.ledger.client_tx_to_idx = client_tx_to_idx

\* A Resolve or ChargeBack was refused for an entry that is not in dispute,
\* while another entry of the ledger is: the ledger is as before the call.
C1_Witness ==
    /\ result = "UnexpectedTxStatus"
    /\ \E i \in 1..Len(transactions) : transactions[i].status = "Disputed"
    /\ \E i \in 1..Len(transactions) : transactions[i].status = "Active"

\* C2 -- once a client's Balance is locked, every process_transaction for
\* that client, of any kind and tx, returns an error and leaves the client's
\* total, holds, held, available and locked flag and the statuses of the
\* client's entries as they were; and no call for any client unlocks it.
C2_LockedIsFinal ==
    \A c \in DOMAIN balance :
        locked(balance[c]) =>
            \A t \in Transaction :
                LET r == Outcome(t)
                    b == r.ledger.balance[c]
                IN /\ locked(b)
                   /\ t.client = c =>
                        /\ r.result # "Ok"
                        /\ b.total = balance[c].total
                        /\ b.holds = balance[c].holds
                        /\ held(b) = held(balance[c])
                        /\ available(b) = available(balance[c])
                        /\ Len(r.ledger.transactions) = Len(transactions)
                        /\ \A i \in EntriesOf(c) :
                              r.ledger.transactions[i].status = transactions[i].status

\* A transaction was refused for a locked client that still has an entry a
\* Dispute could otherwise act on.
C2_Witness ==
    /\ result = "FrozenAccountError"
    /\ \E c \in DOMAIN balance :
          /\ locked(balance[c])
          /\ \E i \in EntriesOf(c) : transactions[i].status = "Active"

\* C3 -- the status of an entry changes only along Active -> Disputed,
\* Disputed -> Resolved and Disputed -> ChargedBack: whatever transaction is
\* processed, every existing entry keeps its status or makes one of these
\* three moves (so Resolved and ChargedBack are terminal, a Resolved entry
\* is never Disputed again, Active never goes straight to Resolved or
\* ChargedBack), and an entry the call appends is Active.
LegalMoves ==
    {<<"Active", "Disputed">>, <<"Disputed", "Resolved">>,
     <<"Disputed", "ChargedBack">>}

C3_StatusTransitions ==
    \A t \in Transaction :
        LET after == Outcome(t).ledger.transactions
        IN /\ Len(after) >= Len(transactions)
           /\ \A i \in 1..Len(transactions) :
                 \/ after[i].status = transactions[i].status
                 \/ <<transactions[i].status, after[i].status>> \in LegalMoves
           /\ \A i \in (Len(transactions) + 1)..Len(after) :
                 after[i].status = "Active"

\* A second Dispute of an entry whose dispute was resolved has been refused.
C3_Witness ==
    /\ result = "UnexpectedTxStatus"
    /\ \E i \in 1..Len(transactions) : transactions[i].status = "Resolved"

\* C4 -- for every client c and tx x, c's Balance has a hold keyed by x
\* exactly when the entry registered under (c, x) is Disputed, and the
\* stored amount is +amount for a Deposit and -amount for a Withdrawal.
C4_HoldsMatchDisputed ==
    \A c \in Clients, x \in Txs :
        /\ (HasBalance(c) /\ x \in DOMAIN balance[c].holds)
              <=> (Registered(c, x) /\ EntryAt(c, x).status = "Disputed")
        /\ (HasBalance(c) /\ x \in DOMAIN balance[c].holds) =>
              balance[c].holds[x] =
                  IF EntryAt(c, x).t.kind = "Deposit"
                  THEN EntryAt(c, x).t.amount
                  ELSE 0 - EntryAt(c, x).t.amount

\* One client has a disputed withdrawal (negative hold) next to an entry
\* whose dispute was resolved (hold gone).
C4_Witness ==
    \E c \in DOMAIN balance, x \in Txs, y \in Txs :
        /\ Registered(c, x) /\ Registered(c, y)
        /\ EntryAt(c, x).t.kind = "Withdrawal"
        /\ EntryAt(c, x).status = "Disputed"
        /\ balance[c].holds[x] < 0
        /\ EntryAt(c, y).status = "Resolved"

\* C5 -- each client's total is the sum of its accepted deposits, minus the
\* sum of its accepted withdrawals, minus the signed holds that chargebacks
\* applied (+amount of a charged-back deposit, -amount of a charged-back
\* withdrawal); disputes and resolves contribute nothing.  A lone accepted
\* Deposit of amount A gives total = available = A and held = 0.
Contribution(e) ==
    LET signed == IF e.t.kind = "Deposit" THEN e.t.amount ELSE 0 - e.t.amount
    IN signed - (IF e.status = "ChargedBack" THEN signed ELSE 0)

ExpectedTotal(c) ==
    SumOver([i \in EntriesOf(c) |-> Contribution(transactions[i])], EntriesOf(c))

C5_TotalIsSumOfHistory ==
    \A c \in DOMAIN balance :
        /\ balance[c].total = ExpectedTotal(c)
        /\ \A i \in EntriesOf(c) :
              (EntriesOf(c) = {i} /\ transactions[i].status = "Active") =>
                  /\ balance[c].total = transactions[i].t.amount
                  /\ available(balance[c]) = transactions[i].t.amount
                  /\ held(balance[c]) = 0

\* A client with an accepted deposit and a charged-back withdrawal.
C5_Witness ==
    \E c \in DOMAIN balance :
        /\ \E i \in EntriesOf(c) :
              /\ transactions[i].t.kind = "Withdrawal"
              /\ transactions[i].t.amount > 0
              /\ transactions[i].status = "ChargedBack"
        /\ \E i \in EntriesOf(c) :
              transactions[i].t.kind = "Deposit" /\ transactions[i].status = "Active"

\* C6 (as stated) -- with non-negative amounts and no Withdrawal submitted
\* for more than the client's total (the inputs of SpecFunded), every
\* client's available balance is >= 0 in every state.
C6_AvailableNonNegative ==
    \A c \in DOMAIN balance : available(balance[c]) >= 0

\* C6 (amended) -- with the same inputs, a client's available balance is
\* >= 0 in every state in which none of the client's deposits is Disputed
\* or ChargedBack.
DepositContested(c) ==
    \E i \in EntriesOf(c) :
        /\ transactions[i].t.kind = "Deposit"
        /\ transactions[i].status \in {"Disputed", "ChargedBack"}

C6_AvailableNonNegativeUncontested ==
    \A c \in DOMAIN balance :
        ~DepositContested(c) => available(balance[c]) >= 0

\* A client that withdrew all it had deposited and whose withdrawal was
\* charged back: no deposit is contested and available is not negative.
C6_Witness ==
    \E c \in DOMAIN balance :
        /\ ~DepositContested(c)
        /\ \E i \in EntriesOf(c) :
              /\ transactions[i].t.kind = "Withdrawal"
              /\ transactions[i].t.amount > 0
              /\ transactions[i].status = "ChargedBack"
        /\ available(balance[c]) >= 0

\* C7 -- when every accepted amount is non-negative, for every client
\* held >= 0, available + held = total and available <= total; held is the
\* sum of the amounts of the client's Disputed deposits (the positive holds)
\* and ignores the holds of Disputed withdrawals.
HeldDeposits(c) ==
    LET ds == {i \in EntriesOf(c) : /\ transactions[i].t.kind = "Deposit"
                                    /\ transactions[i].status = "Disputed"}
    IN SumOver([i \in ds |-> transactions[i].t.amount], ds)

C7_HeldCountsDepositsOnly ==
    NonNegativeAmounts =>
        \A c \in DOMAIN balance :
            /\ held(balance[c]) >= 0
            /\ available(balance[c]) + held(balance[c]) = balance[c].total
            /\ available(balance[c]) <= balance[c].total
            /\ held(balance[c]) = HeldDeposits(c)

\* A client with a disputed deposit and a disputed withdrawal at once.
C7_Witness ==
    /\ NonNegativeAmounts
    /\ \E c \in DOMAIN balance :
          /\ \E x \in DOMAIN balance[c].holds : balance[c].holds[x] > 0
          /\ \E x \in DOMAIN balance[c].holds : balance[c].holds[x] < 0

\* C8 -- a successful Dispute of an Active Deposit of amount A >= 0 (amounts
\* are non-negative quantities) leaves total unchanged, raises held by
\* exactly A and lowers available by exactly A; a client whose history is
\* Deposit(A) and a Dispute of it has available = 0, held = A, total = A.
C8_DisputeDepositHoldsAmount ==
    /\ \A t \in Transaction :
          (/\ t.kind = "Dispute"
           /\ Registered(t.client, t.tx)
           /\ EntryAt(t.client, t.tx).t.kind = "Deposit"
           /\ EntryAt(t.client, t.tx).t.amount >= 0
           /\ Outcome(t).result = "Ok") =>
              LET b == balance[t.client]
                  b2 == Outcome(t).ledger.balance[t.client]
                  A == EntryAt(t.client, t.tx).t.amount
              IN /\ b2.total = b.total
                 /\ held(b2) = held(b) + A
                 /\ available(b2) = available(b) - A
    /\ \A c \in DOMAIN balance :
          \A i \in EntriesOf(c) :
              (/\ EntriesOf(c) = {i}
               /\ transactions[i].t.kind = "Deposit"
               /\ transactions[i].t.amount >= 0
               /\ transactions[i].status = "Disputed") =>
                  /\ available(balance[c]) = 0
                  /\ held(balance[c]) = transactions[i].t.amount
                  /\ balance[c].total = transactions[i].t.amount

\* The Dispute of a client's only entry, a Deposit of a positive amount,
\* has just succeeded.
C8_Witness ==
    /\ result = "Ok"
    /\ \E c \in DOMAIN balance :
          \E i \in EntriesOf(c) :
              /\ EntriesOf(c) = {i}
              /\ transactions[i].t.kind = "Deposit"
              /\ transactions[i].t.amount > 0
              /\ transactions[i].status = "Disputed"
              /\ ~locked(balance[c])

C10_DisputedWithdrawalRestoresAvailable ==
    \A c \in Clients :
        (/\ Len(transactions) = 2
         /\ transactions[1].t = [kind |-> "Deposit", client |-> c,
                                 tx |-> transactions[1].t.tx,
                                 amount |-> transactions[1].t.amount]
         /\ transactions[1].status = "Active"
         /\ transactions[2].t = [kind |-> "Withdrawal", client |-> c,
                                 tx |-> transactions[2].t.tx,
                                 amount |-> transactions[2].t.amount]
         /\ transactions[2].status = "Disputed"
         /\ transactions[1].t.amount >= 0
         /\ transactions[2].t.amount >= 0) =>
            get_available_balance(ledger, c) =
                [some |-> TRUE, value |-> transactions[1].t.amount]

\* C11 -- a successful Resolve removes exactly the hold of the entry it
\* names and leaves total unchanged; a Dispute followed at once by a Resolve
\* of the same (client, tx) succeeds and restores the client's total, held
\* and available; a client whose history is Deposit(A), Withdrawal(B), a
\* Dispute and a Resolve of the withdrawal has available = total = A - B and
\* held = 0.
C11_ResolveReleasesHold ==
    /\ \A t \in Transaction :
          (t.kind = "Resolve" /\ Outcome(t).result = "Ok") =>
              LET b == balance[t.client]
                  b2 == Outcome(t).ledger.balance[t.client]
              IN /\ t.tx \in DOMAIN b.holds
                 /\ b2.holds = MapRemove(b.holds, t.tx)
                 /\ b2.total = b.total
    /\ \A t \in Transaction :
          (t.kind = "Dispute" /\ Outcome(t).result = "Ok") =>
              LET r == process_transaction(Outcome(t).ledger,
                           [kind |-> "Resolve", client |-> t.client, tx |-> t.tx])
                  b == balance[t.client]
                  b2 == r.ledger.balance[t.client]
              IN /\ r.result = "Ok"
                 /\ b2.total = b.total
                 /\ held(b2) = held(b)
                 /\ available(b2) = available(b)
                 /\ b2.holds = b.holds
    /\ \A c \in DOMAIN balance :
          \A i, j \in EntriesOf(c) :
              (/\ EntriesOf(c) = {i, j}
               /\ transactions[i].t.kind = "Deposit"
               /\ transactions[i].status = "Active"
               /\ transactions[j].t.kind = "Withdrawal"
               /\ transactions[j].status = "Resolved") =>
                  LET A == transactions[i].t.amount
                      B == transactions[j].t.amount
                  IN /\ available(balance[c]) = A - B
                     /\ balance[c].total = A - B
                     /\ held(balance[c]) = 0

\* Deposit(2), Withdrawal(1), and the Dispute and the Resolve of the
\* withdrawal have been accepted for one client.
C11_Witness ==
    /\ result = "Ok"
    /\ \E c \in DOMAIN balance :
          \E i, j \in EntriesOf(c) :
              /\ EntriesOf(c) = {i, j}
              /\ transactions[i].t.kind = "Deposit"
              /\ transactions[i].status = "Active"
              /\ transactions[j].t.kind = "Withdrawal"
              /\ transactions[j].status = "Resolved"
              /\ transactions[j].t.amount > 0
              /\ transactions[i].t.amount > transactions[j].t.amount
              /\ balance[c].total = 1

\* C12 -- a successful ChargeBack reverses the original transaction's effect
\* on total, deletes its hold and locks the account: total decreases by A
\* for a disputed Deposit of amount A and increases by B for a disputed
\* Withdrawal of amount B.  A client whose history is Deposit(A, tx 1),
\* Dispute(tx 1), Deposit(C, tx 2), ChargeBack(tx 1) has total = C,
\* available = C and locked = true.
C12_ChargeBackReversesAndLocks ==
    /\ \A t \in Transaction :
          (t.kind = "ChargeBack" /\ Outcome(t).result = "Ok") =>
              LET b == balance[t.client]
                  b2 == Outcome(t).ledger.balance[t.client]
                  e == EntryAt(t.client, t.tx)
              IN /\ e.t.kind = "Deposit" => b2.total = b.total - e.t.amount
                 /\ e.t.kind = "Withdrawal" => b2.total = b.total + e.t.amount
                 /\ t.tx \in DOMAIN b.holds
                 /\ b2.holds = MapRemove(b.holds, t.tx)
                 /\ locked(b2)
    /\ \A c \in DOMAIN balance :
          \A i, j \in EntriesOf(c) :
              (/\ EntriesOf(c) = {i, j}
               /\ transactions[i].t.kind = "Deposit"
               /\ transactions[i].status = "ChargedBack"
               /\ transactions[j].t.kind = "Deposit"
               /\ transactions[j].status = "Active") =>
                  /\ balance[c].total = transactions[j].t.amount
                  /\ available(balance[c]) = transactions[j].t.amount
                  /\ locked(balance[c])

\* Deposit(2, tx 1), a Dispute of it, Deposit(1, tx 2) and the ChargeBack of
\* tx 1 have been accepted for one client.
C12_Witness ==
    /\ result = "Ok"
    /\ \E c \in DOMAIN balance :
          /\ Registered(c, 1) /\ Registered(c, 2)
          /\ EntryAt(c, 1).t.kind = "Deposit"
          /\ EntryAt(c, 1).t.amount = 2
          /\ EntryAt(c, 1).status = "ChargedBack"
          /\ EntryAt(c, 2).t.kind = "Deposit"
          /\ EntryAt(c, 2).t.amount = 1
          /\ EntryAt(c, 2).status = "Active"
          /\ balance[c].total = 1
          /\ locked(balance[c])

\* C13 -- a Deposit or Withdrawal whose (client, tx) is already registered
\* fails with DuplicateTransaction and leaves the ledger as it was; no two
\* entries of the history carry the same (client, tx), and the index maps
\* exactly the pairs of the history, each to the entry that carries it.
C13_DuplicateRejected ==
    /\ \A t \in Transaction :
          (t.kind \in MoneyKinds /\ Registered(t.client, t.tx)) =>
              /\ Outcome(t).result = "DuplicateTransaction"
              /\ Outcome(t).ledger = ledger
    /\ \A i, j \in 1..Len(transactions) :
          key(transactions[i].t) = key(transactions[j].t) => i = j
    /\ DOMAIN client_tx_to_idx =
          {key(transactions[i].t) : i \in 1..Len(transactions)}
    /\ \A k \in DOMAIN client_tx_to_idx :
          /\ client_tx_to_idx[k] + 1 \in 1..Len(transactions)
          /\ key(transactions[client_tx_to_idx[k] + 1].t) = k

\* A second Deposit or Withdrawal under a registered pair has been refused,
\* in a ledger that holds two entries.
C13_Witness ==
    /\ result = "DuplicateTransaction"
    /\ Len(transactions) = 2
    /\ \A c \in DOMAIN balance : ~locked(balance[c])

\* C14 -- a Balance exists for client c (get_available_balance(c) returns a
\* value) exactly when a transaction of c has been accepted, that is when
\* the history holds an entry of c; an accepted transaction leaves its
\* client with a Balance, a rejected one creates none, and a transaction
\* other than a Deposit for a client without a Balance fails with
\* NoInitialDeposit.
C14_BalanceIffAccepted ==
    /\ \A c \in Clients :
          get_available_balance(ledger, c).some <=> EntriesOf(c) # {}
    /\ \A t \in Transaction :
          LET r == Outcome(t)
          IN /\ r.result = "Ok" => t.client \in DOMAIN r.ledger.balance
             /\ r.result # "Ok" => DOMAIN r.ledger.balance = DOMAIN balance
             /\ (~is_deposit(t) /\ ~HasBalance(t.client)) =>
                    r.result = "NoInitialDeposit"

\* A transaction other than a Deposit has been refused for a client that has
\* no Balance, while the other client has one.
C14_Witness ==
    /\ result = "NoInitialDeposit"
    /\ \E c \in Clients : ~HasBalance(c)
    /\ \E c \in Clients : get_available_balance(ledger, c).some

\* C15 (as stated) -- every transaction submitted for a client whose Balance
\* is locked fails with FrozenAccountError, a Deposit or Withdrawal that
\* reuses a registered (client, tx) included.
C15_LockedAlwaysFrozen ==
    \A t \in Transaction :
        (HasBalance(t.client) /\ locked(balance[t.client])) =>
            Outcome(t).result = "FrozenAccountError"

\* C15 (amended) -- every transaction submitted for a client whose Balance is
\* locked fails: with DuplicateTransaction when it is a Deposit or Withdrawal
\* that reuses a registered (client, tx), and with FrozenAccountError in
\* every other case (a Deposit or Withdrawal with a fresh tx, and a Dispute,
\* Resolve or ChargeBack for any tx).
C15_LockedFrozenUnlessDuplicate ==
    \A t \in Transaction :
        (HasBalance(t.client) /\ locked(balance[t.client])) =>
            Outcome(t).result =
                IF t.kind \in MoneyKinds /\ Registered(t.client, t.tx)
                THEN "DuplicateTransaction"
                ELSE "FrozenAccountError"

\* A Deposit or Withdrawal under a registered pair has been refused as a
\* duplicate while the only client with entries is locked.
C15_Witness ==
    /\ result = "DuplicateTransaction"
    /\ \E c \in DOMAIN balance :
          /\ locked(balance[c])
          /\ DOMAIN balance = {c}

\* C16 -- a Withdrawal of amount m with a fresh (client, tx) for an existing
\* unlocked client is accepted exactly when m <= total, whatever the
\* client's holds (also when m > available), and then total decreases by
\* exactly m; otherwise it fails with InsufficientFunds and total is
\* unchanged.
C16_WithdrawalCheckedAgainstTotal ==
    \A t \in Transaction :
        (/\ t.kind = "Withdrawal"
         /\ ~Registered(t.client, t.tx)
         /\ HasBalance(t.client)
         /\ ~locked(balance[t.client])) =>
            LET b == balance[t.client]
                r == Outcome(t)
                b2 == r.ledger.balance[t.client]
            IN IF t.amount <= b.total
               THEN /\ r.result = "Ok"
                    /\ b2.total = b.total - t.amount
                    /\ b2.holds = b.holds
               ELSE /\ r.result = "InsufficientFunds"
                    /\ b2.total = b.total

\* A client whose deposit is held in full by a dispute has had a withdrawal
\* of a positive amount accepted: its available balance is below zero.
C16_Witness ==
    /\ result = "Ok"
    /\ \E c \in DOMAIN balance :
          \E i, j \in EntriesOf(c) :
              /\ i < j
              /\ transactions[i].t.kind = "Deposit"
              /\ transactions[i].status = "Disputed"
              /\ transactions[j].t.kind = "Withdrawal"
              /\ transactions[j].status = "Active"
              /\ transactions[j].t.amount > 0
              /\ available(balance[c]) < 0

\* C17 (as stated) -- transaction ids of accepted deposits and withdrawals
\* are globally unique: no two entries of the history carry the same tx id,
\* even when they belong to different clients.
C17_TxGloballyUnique ==
    \A i, j \in 1..Len(transactions) :
        transactions[i].t.tx = transactions[j].t.tx => i = j

\* C17 (amended) -- transaction ids of accepted deposits and withdrawals are
\* unique per client: two different entries of the history that carry the
\* same tx id belong to different clients.
C17_TxUniquePerClient ==
    \A i, j \in 1..Len(transactions) :
        (i # j /\ transactions[i].t.tx = transactions[j].t.tx) =>
            transactions[i].t.client # transactions[j].t.client

\* The history holds entries of two clients under the same tx id.
C17_Witness ==
    \E i, j \in 1..Len(transactions) :
        /\ i # j
        /\ transactions[i].t.tx = transactions[j].t.tx
        /\ transactions[i].t.client # transactions[j].t.client
        /\ result = "Ok"

\* C18 -- client isolation: a process_transaction call for client c, accepted
\* or refused, leaves every other client's Balance (its existence, total,
\* holds and locked) and every entry registered under another client as it
\* was, also when the two clients use the same tx id.
C18_ClientIsolation ==
    \A t \in Transaction :
        LET after == Outcome(t).ledger
        IN \A c \in Clients \ {t.client} :
              /\ (c \in DOMAIN after.balance) <=> HasBalance(c)
              /\ HasBalance(c) => after.balance[c] = balance[c]
              /\ \A i \in EntriesOf(c) : after.transactions[i] = transactions[i]
              /\ \A x \in Txs :
                    Registered(c, x) =>
                        /\ <<c, x>> \in DOMAIN after.client_tx_to_idx
                        /\ after.client_tx_to_idx[<<c, x>>] = client_tx_to_idx[<<c, x>>]

\* Two clients have an entry under the same tx id; the one of client 0 is in
\* dispute and holds funds, the one of client 1 is untouched.
C18_Witness ==
    /\ Registered(0, 1) /\ Registered(1, 1)
    /\ EntryAt(0, 1).status = "Disputed"
    /\ EntryAt(1, 1).status = "Active"
    /\ DOMAIN balance[0].holds = {1}
    /\ DOMAIN balance[1].holds = {}
    /\ result = "Ok"

\* C19 -- a Dispute naming an entry that is already Disputed, Resolved or
\* ChargedBack fails, and so does a Resolve or ChargeBack naming an entry
\* that is not Disputed (with UnexpectedTxStatus when the client is not
\* locked); the client's Balance (total, holds, locked) and the entry's
\* status are left unchanged.
WrongStatusFor(t) ==
    /\ t.kind \in RefKinds
    /\ Registered(t.client, t.tx)
    /\ IF t.kind = "Dispute"
       THEN EntryAt(t.client, t.tx).status # "Active"
       ELSE EntryAt(t.client, t.tx).status # "Disputed"

C19_WrongStatusRefused ==
    \A t \in Transaction :
        WrongStatusFor(t) =>
            LET r == Outcome(t)
                idx == client_tx_to_idx[key(t)]
            IN /\ r.result # "Ok"
               /\ ~locked(balance[t.client]) => r.result = "UnexpectedTxStatus"
               /\ r.ledger.balance[t.client] = balance[t.client]
               /\ r.ledger.transactions[idx + 1].status = transactions[idx + 1].status

\* A Dispute of an entry that is already in dispute has been refused: every
\* entry of the ledger is Disputed and no client is locked, so a Resolve or
\* ChargeBack would have been accepted.
C19_Witness ==
    /\ result = "UnexpectedTxStatus"
    /\ Len(transactions) > 0
    /\ \A i \in 1..Len(transactions) : transactions[i].status = "Disputed"
    /\ \A c \in DOMAIN balance : ~locked(balance[c])

\* C20 -- process_transaction reports the first failing check in the order
\* duplicate, account existence, lock, dispatch: a Deposit or Withdrawal
\* under a registered (client, tx) returns DuplicateTransaction whatever the
\* lock and the funds; else a transaction other than a Deposit for a client
\* without a Balance returns NoInitialDeposit, before any lookup of the
\* entry; else a transaction for a locked client returns FrozenAccountError,
\* before MissingTransaction, UnexpectedTxStatus or InsufficientFunds.
C20_CheckOrder ==
    \A t \in Transaction :
        LET r == Outcome(t).result
        IN IF t.kind \in MoneyKinds /\ Registered(t.client, t.tx)
           THEN r = "DuplicateTransaction"
           ELSE IF ~is_deposit(t) /\ ~HasBalance(t.client)
           THEN r = "NoInitialDeposit"
           ELSE IF HasBalance(t.client) /\ locked(balance[t.client])
           THEN r = "FrozenAccountError"
           ELSE r \in {"Ok", "MissingTransaction", "UnexpectedTxStatus",
                       "InsufficientFunds"}

\* A transaction has been refused as frozen for a locked client that has an
\* unregistered tx id (a MissingTransaction case) and a total below the
\* largest amount (an InsufficientFunds case).
C20_Witness ==
    /\ result = "FrozenAccountError"
    /\ HasBalance(0)
    /\ locked(balance[0])
    /\ ~Registered(0, 2)
    /\ balance[0].total < 2
    /\ ~HasBalance(1)

\* C21 -- the history is append-only: in every reachable state the index
\* maps each registered (client, tx) to the position of the entry that
\* carries that client and tx, and for every transaction t: an accepted
\* Deposit or Withdrawal appends exactly one Active entry for t and registers
\* key(t), not registered before, at that entry's position; a Dispute,
\* Resolve or ChargeBack and every rejected transaction leave the length of
\* the history and the index unchanged; and the payload (kind, client, tx,
\* amount) of every entry already in the history stays at its position.
C21_HistoryAppendOnly ==
    /\ \A k \in DOMAIN client_tx_to_idx :
          /\ client_tx_to_idx[k] + 1 \in 1..Len(transactions)
          /\ key(transactions[client_tx_to_idx[k] + 1].t) = k
    /\ \A t \in Transaction :
          LET r == Outcome(t)
              after == r.ledger
              n == Len(transactions)
          IN /\ (t.kind \in MoneyKinds /\ r.result = "Ok") =>
                   /\ key(t) \notin DOMAIN client_tx_to_idx
                   /\ after.transactions = Append(transactions, Entry_new(t))
                   /\ DOMAIN after.client_tx_to_idx
                        = DOMAIN client_tx_to_idx \cup {key(t)}
                   /\ after.client_tx_to_idx[key(t)] = n
                   /\ \A k \in DOMAIN client_tx_to_idx :
                         after.client_tx_to_idx[k] = client_tx_to_idx[k]
             /\ (t.kind \in RefKinds \/ r.result # "Ok") =>
                   /\ Len(after.transactions) = n
                   /\ after.client_tx_to_idx = client_tx_to_idx
             /\ \A i \in 1..n : after.transactions[i].t = transactions[i].t

\* A history of two entries, one of them no longer Active (a Dispute has
\* acted on it), right after a call that was rejected.
C21_Witness ==
    /\ Len(transactions) = 2
    /\ \E i \in 1..2 : transactions[i].status # "Active"
    /\ result \notin {"Ok", "None"}

\* C22 -- a reference to a transaction of another client is a missing
\* transaction: in every reachable state, a Dispute, Resolve or ChargeBack
\* that names (c, x), where client c has an unlocked Balance and nothing is
\* registered under exactly (c, x), returns MissingTransaction, also when
\* tx x is registered under a different client; the call leaves the ledger
\* as it found it, so that other client's entry and Balance are untouched.
C22_OtherClientsTxIsMissing ==
    \A t \in Transaction :
        (/\ t.kind \in RefKinds
         /\ HasBalance(t.client)
         /\ ~locked(balance[t.client])
         /\ ~Registered(t.client, t.tx)) =>
            LET r == Outcome(t)
            IN /\ r.result = "MissingTransaction"
               /\ r.ledger.transactions = transactions
               /\ r.ledger.balance = balance
               /\ r.ledger.client_tx_to_idx = client_tx_to_idx

\* Client 0 is unlocked and has registered tx 2 only, tx 1 is registered
\* under client 1, and the last call returned MissingTransaction: with every
\* pair of client 1 registered, that call named (0, 1).
C22_Witness ==
    /\ result = "MissingTransaction"
    /\ Registered(1, 1)
    /\ Registered(0, 2)
    /\ ~Registered(0, 1)
    /\ ~locked(balance[0])
    /\ ~locked(balance[1])

\* C23 -- the balance-level errors of the hold operations and of a locked
\* Balance are unreachable through process_transaction: no call made in a
\* reachable state, and no call made so far, returns MultiHoldError,
\* NoHoldError or AccountLocked. Hence, for a client with an unlocked
\* Balance, a Dispute of a registered entry that is Active returns Ok, and
\* a Resolve or ChargeBack of a registered entry that is Disputed returns Ok.
C23_BalanceErrorsUnreachable ==
    /\ result \notin {"MultiHoldError", "NoHoldError", "AccountLocked"}
    /\ \A t \in Transaction :
          LET r == Outcome(t)
          IN /\ r.result \notin {"MultiHoldError", "NoHoldError", "AccountLocked"}
             /\ (/\ t.kind \in RefKinds
                 /\ HasBalance(t.client)
                 /\ ~locked(balance[t.client])
                 /\ Registered(t.client, t.tx)) =>
                   /\ (t.kind = "Dispute"
                       /\ EntryAt(t.client, t.tx).status = "Active")
                         => r.result = "Ok"
                   /\ (t.kind \in {"Resolve", "ChargeBack"}
                       /\ EntryAt(t.client, t.tx).status = "Disputed")
                         => r.result = "Ok"

\* A Dispute, a Resolve and a ChargeBack have all been accepted: one entry
\* is Resolved, another is ChargedBack, and the last call returned Ok.
C23_Witness ==
    /\ result = "Ok"
    /\ \E i \in 1..Len(transactions) : transactions[i].status = "Resolved"
    /\ \E i \in 1..Len(transactions) : transactions[i].status = "ChargedBack"

\* C24 -- a locked Balance refuses money with AccountLocked: whenever the
\* Balance is locked, withdraw fails with AccountLocked for every amount,
\* amounts greater than total included, and leaves the Balance unchanged,
\* and deposit fails with AccountLocked and leaves the Balance unchanged.
C24_LockedBalanceAccountLocked ==
    locked(balance[0]) =>
        \A a \in Amounts :
            /\ withdraw(balance[0], a) = [b |-> balance[0], err |-> "AccountLocked"]
            /\ deposit(balance[0], a) = [b |-> balance[0], err |-> "AccountLocked"]

\* C24 (amended) -- a locked Balance refuses money and withdraw looks at the
\* funds first: whenever the Balance is locked, withdraw fails and leaves
\* the Balance unchanged for every amount, with InsufficientFunds when the
\* amount is greater than total and with AccountLocked otherwise, and
\* deposit fails with AccountLocked and leaves the Balance unchanged.
C24_LockedBalanceFundsFirst ==
    locked(balance[0]) =>
        \A a \in Amounts :
            /\ withdraw(balance[0], a) =
                  [b |-> balance[0],
                   err |-> IF a > balance[0].total
                           THEN "InsufficientFunds" ELSE "AccountLocked"]
            /\ deposit(balance[0], a) = [b |-> balance[0], err |-> "AccountLocked"]

\* The Balance is locked with a total of 1, and the last call on it was
\* refused for its funds: a withdraw of 2 on the locked Balance (no other
\* method returns InsufficientFunds, and nothing changes total or unlocks
\* after a refused call).
C24_Witness ==
    /\ locked(balance[0])
    /\ balance[0].total = 1
    /\ result = "InsufficientFunds"

\* C25 -- locked means charged back once: in every reachable state no
\* client has two ChargedBack entries, and a client has a locked Balance
\* if and only if exactly one of its entries is ChargedBack; and whatever
\* transaction is processed next, every entry of a locked client that is
\* Disputed is still Disputed afterwards, with its hold in place and of the
\* same amount (so, step after step, forever).
C25_LockedIffOneChargeBack ==
    /\ \A c \in Clients :
          LET cb == {i \in EntriesOf(c) : transactions[i].status = "ChargedBack"}
          IN /\ Cardinality(cb) <= 1
             /\ (HasBalance(c) /\ locked(balance[c])) <=> Cardinality(cb) = 1
    /\ \A t \in Transaction :
          LET after == Outcome(t).ledger
          IN \A c \in DOMAIN balance :
                locked(balance[c]) =>
                   \A i \in EntriesOf(c) :
                      transactions[i].status = "Disputed" =>
                         LET x == transactions[i].t.tx
                         IN /\ after.transactions[i].status = "Disputed"
                            /\ x \in DOMAIN balance[c].holds
                            /\ x \in DOMAIN after.balance[c].holds
                            /\ after.balance[c].holds[x] = balance[c].holds[x]

\* Client 0 is locked with one entry ChargedBack and the other one still
\* Disputed, and a later call for it has been refused.
C25_Witness ==
    /\ HasBalance(0)
    /\ locked(balance[0])
    /\ \E i \in EntriesOf(0) : transactions[i].status = "ChargedBack"
    /\ \E i \in EntriesOf(0) : transactions[i].status = "Disputed"
    /\ result = "FrozenAccountError"

\* C26 -- a rejected Deposit or Withdrawal does not consume its transaction
\* id: in every reachable state and for every Deposit or Withdrawal t that
\* is rejected, the call registers nothing (the index is as before); and
\* when a Withdrawal t fails with InsufficientFunds, key(t) is not
\* registered afterwards, a following Dispute, Resolve or ChargeBack that
\* names the same (client, tx) returns MissingTransaction, and a following
\* Deposit or Withdrawal that reuses the same (client, tx) is not rejected
\* with DuplicateTransaction.
C26_RejectedKeepsTxFree ==
    \A t \in Transaction :
        t.kind \in MoneyKinds =>
            LET r == Outcome(t)
            IN /\ r.result # "Ok" =>
                     r.ledger.client_tx_to_idx = client_tx_to_idx
               /\ (t.kind = "Withdrawal" /\ r.result = "InsufficientFunds") =>
                     /\ <<t.client, t.tx>> \notin DOMAIN r.ledger.client_tx_to_idx
                     /\ \A u \in Transaction :
                           (u.client = t.client /\ u.tx = t.tx) =>
                              LET s == process_transaction(r.ledger, u).result
                              IN IF u.kind \in RefKinds
                                 THEN s = "MissingTransaction"
                                 ELSE s # "DuplicateTransaction"

\* Client 0 has registered tx 1 only and client 1 has no Balance, and the
\* last call returned InsufficientFunds: it was a Withdrawal of client 0
\* under tx 2, which is still not registered.
C26_Witness ==
    /\ result = "InsufficientFunds"
    /\ Registered(0, 1)
    /\ ~Registered(0, 2)
    /\ ~HasBalance(1)

\* The status of every registered (client, tx) entry of ledger L, with the
\* entry's payload, whatever the entry's position in the history.
EntryByKey(L) ==
    [k \in DOMAIN L.client_tx_to_idx |-> L.transactions[L.client_tx_to_idx[k] + 1]]

\* C27 -- transactions of different clients commute: in every reachable
\* state and for every two transactions t1 and t2 of different clients,
\* processing t1 then t2 and processing t2 then t1 return the same result
\* for t1 and the same result for t2, and leave the same Balance (total,
\* holds, locked) for every client and the same entry, with the same
\* status, under every registered (client, tx); only positions in the
\* history may differ. (The statement is symmetric in t1 and t2, so the
\* pairs are taken with the smaller client first. The first call of each
\* order is evaluated once per transaction; a first call that leaves the
\* ledger as it found it makes the second call the other order's first.)
C27_DifferentClientsCommute ==
    LET first(c) ==
            {<<t, Outcome(t)>> : t \in {u \in Transaction : u.client = c}}
    IN \A a \in Clients : \A b \in Clients :
          a < b =>
             LET firstA == first(a)
                 firstB == first(b)
             IN \A p1 \in firstA : \A p2 \in firstB :
                   LET t1 == p1[1]
                       t2 == p2[1]
                       r1 == p1[2]
                       r2 == p2[2]
                       r12 == IF r1.ledger = ledger THEN r2
                              ELSE process_transaction(r1.ledger, t2)
                       r21 == IF r2.ledger = ledger THEN r1
                              ELSE process_transaction(r2.ledger, t1)
                   IN /\ r1.result = r21.result
                      /\ r2.result = r12.result
                      /\ \/ r12.ledger = r21.ledger
                         \/ /\ r12.ledger.balance = r21.ledger.balance
                            /\ EntryByKey(r12.ledger) = EntryByKey(r21.ledger)
                            /\ Len(r12.ledger.transactions)
                                 = Len(r21.ledger.transactions)

\* Entries of both clients are in the history, client 1's before client 0's
\* (the other order is reachable as well), and client 1's is disputed.
C27_Witness ==
    /\ Len(transactions) = 2
    /\ transactions[1].t.client = 1
    /\ transactions[2].t.client = 0
    /\ transactions[1].status = "Disputed"

====
